---- MODULE Spec2Model ----
(***************************************************************************)
(* The single-pass register and stack allocator `Machine` of              *)
(* lib/compiler-singlepass/src/machine.rs, as a state machine.             *)
(*                                                                         *)
(* The Machine's fields are the variables used_gprs, used_xmms,            *)
(* stack_offset, save_area_offset and locals_offset.  Every method is a    *)
(* pure operator from the fields (and the arguments) to the fields after   *)
(* the call, the instructions handed to the emitter and the return value;  *)
(* one action per method applies it.  A panic (assert!, assert_eq!,        *)
(* unreachable!, unwrap on None) sets `fatal` and stops the machine with   *)
(* the fields as they were at the point of the panic.                      *)
(*                                                                         *)
(* frames, snaps, held, temps, last describe the code generator that       *)
(* drives the Machine: the location lists it still holds, the fields as    *)
(* they were before each acquisition of the nested sequence it is in, the  *)
(* handles it was given and has not released, and the call it made last.   *)
(***************************************************************************)
EXTENDS Integers, Sequences, FiniteSets, Bags, TLC

VARIABLES
    used_gprs,          \* Machine.used_gprs : HashSet<GPR>
    used_xmms,          \* Machine.used_xmms : HashSet<XMM>
    stack_offset,       \* Machine.stack_offset.0 : usize
    save_area_offset,   \* Machine.save_area_offset : Option<MachineStackOffset>
    locals_offset,      \* Machine.locals_offset.0 : usize
    emitted,            \* the instructions the last call handed to the emitter
    fatal,              \* a panic has been raised
    frames,             \* the lists returned by acquire_locations and not yet released
    snaps,              \* the fields before the acquisitions of a nested sequence
    held,               \* bag of the locations acquire_locations gave out, not yet released
    temps,              \* bag of the temporaries given out, not yet released
    last                \* the last call: method, arguments, return value

vars == <<used_gprs, used_xmms, stack_offset, save_area_offset, locals_offset,
          emitted, fatal, frames, snaps, held, temps, last>>

(***************************************************************************)
(* Bounds of the model.                                                    *)
(***************************************************************************)
MaxFrames == 2      \* lists the code generator holds at once
MaxTemps == 1       \* temporaries the code generator holds at once
MaxLocalIdx == 5    \* greatest index passed to get_local_location
MaxParamIdx == 63   \* greatest index passed to get_param_location

\* The length of the request of test_release_locations_keep_state_nopanic.
TestRequest == 10

None == "None"

\* Option<MachineStackOffset>: None, and Some(x).
NoOffset == <<>>

Some(x) == <<x>>

(***************************************************************************)
(* Location (emitter_x64), as a record of one shape: k is the variant, r   *)
(* the register (the base register of a Memory), off the displacement of a *)
(* Memory or the value of an immediate.                                    *)
(***************************************************************************)
GPR(x) == [k |-> "GPR", r |-> x, off |-> 0]
XMM(x) == [k |-> "XMM", r |-> x, off |-> 0]
Memory(base, disp) == [k |-> "Memory", r |-> base, off |-> disp]
Imm32(v) == [k |-> "Imm32", r |-> None, off |-> v]
Imm64(v) == [k |-> "Imm64", r |-> None, off |-> v]

\* An emitted instruction: Emitter::emit_<op>(Size::S64, src, dst).
Instr(op, src, dst) == [op |-> op, src |-> src, dst |-> dst]

\* The fields of a Machine that the allocation methods read and write.
Fields(g, x, s) == [used_gprs |-> g, used_xmms |-> x, stack_offset |-> s]

Self == Fields(used_gprs, used_xmms, stack_offset)

Min(S) == CHOOSE a \in S : \A b \in S : a <= b

Max(S) == CHOOSE a \in S : \A b \in S : a >= b

\* Mutant of FirstUnused: the last unused register of the list.
LastUnused(regs, used) ==
    LET free == {i \in 1..Len(regs) : regs[i] \notin used}
    IN  IF free = {} THEN None ELSE regs[Max(free)]

\* `for r in REGS { if !used.contains(r) { return Some(*r); } } None`
FirstUnused(regs, used) ==
    LET free == {i \in 1..Len(regs) : regs[i] \notin used}
    IN  IF free = {} THEN None ELSE regs[Min(free)]

\* Mutant of pick_gpr: R15 closes the list.
pick_gpr_r15(used) ==
    FirstUnused(<<"RSI", "RDI", "R8", "R9", "R10", "R11", "R15">>, used)

pick_gpr(used) == FirstUnused(<<"RSI", "RDI", "R8", "R9", "R10", "R11">>, used)

pick_temp_gpr(used) == FirstUnused(<<"RAX", "RCX", "RDX">>, used)

pick_xmm(used) == FirstUnused(<<"XMM3", "XMM4", "XMM5", "XMM6", "XMM7">>, used)

pick_temp_xmm(used) == FirstUnused(<<"XMM0", "XMM1", "XMM2">>, used)


(***************************************************************************)
(* acquire_locations                                                       *)
(***************************************************************************)
WpTypes == {"I32", "I64", "F32", "F64", "V128", "FuncRef", "ExternRef"}

NoLoc == [k |-> "None", r |-> None, off |-> 0]

\* Option<GPR> / Option<XMM> mapped to Option<Location>: `.map(Location::GPR)`.
MapLoc(reg, ctor) == IF reg = None THEN NoLoc ELSE [k |-> ctor, r |-> reg, off |-> 0]

\* Mutant of acquire_match: the reference kinds are served from the XMM pool.
acquire_match_ref_xmm(m, ty) ==
    CASE ty \in {"F32", "F64"} -> MapLoc(pick_xmm(m.used_xmms), "XMM")
      [] ty \in {"I32", "I64"} -> MapLoc(pick_gpr(m.used_gprs), "GPR")
      [] ty \in {"FuncRef", "ExternRef"} -> MapLoc(pick_xmm(m.used_xmms), "XMM")
      [] OTHER -> [k |-> "unreachable", r |-> None, off |-> 0]

\* The `match *ty` of the loop body; every other kind is `unreachable!`.
acquire_match(m, ty) ==
    CASE ty \in {"F32", "F64"} -> MapLoc(pick_xmm(m.used_xmms), "XMM")
      [] ty \in {"I32", "I64"} -> MapLoc(pick_gpr(m.used_gprs), "GPR")
      [] ty \in {"FuncRef", "ExternRef"} -> MapLoc(pick_gpr(m.used_gprs), "GPR")
      [] OTHER -> [k |-> "unreachable", r |-> None, off |-> 0]

\* The accumulator of a loop over a list: the fields, the bytes of stack
\* committed or freed so far, the locations pushed to `ret`, and whether the
\* loop has panicked.
Acc(m, delta, ret, panicked) ==
    [m |-> m, delta |-> delta, ret |-> ret, fatal |-> panicked]

\* Mutant of acquire_step: an XMM register handed out is not marked used.
acquire_step_xmm_unmarked(acc, ty) ==
    IF acc.fatal THEN acc
    ELSE LET picked == acquire_match(acc.m, ty)
             spill == picked.k = "None"
             so == IF spill THEN acc.m.stack_offset + 8 ELSE acc.m.stack_offset
             loc == IF spill THEN Memory("RBP", -so) ELSE picked
         IN  IF picked.k = "unreachable"
             THEN [acc EXCEPT !.fatal = TRUE]
             ELSE Acc(Fields(IF loc.k = "GPR" THEN acc.m.used_gprs \cup {loc.r}
                                              ELSE acc.m.used_gprs,
                             acc.m.used_xmms,
                             so),
                      IF spill THEN acc.delta + 8 ELSE acc.delta,
                      Append(acc.ret, loc),
                      FALSE)

\* Mutant of acquire_step: the slot is named before the stack offset grows.
acquire_step_stale(acc, ty) ==
    IF acc.fatal THEN acc
    ELSE LET picked == acquire_match(acc.m, ty)
             spill == picked.k = "None"
             so == IF spill THEN acc.m.stack_offset + 8 ELSE acc.m.stack_offset
             loc == IF spill THEN Memory("RBP", -acc.m.stack_offset) ELSE picked
         IN  IF picked.k = "unreachable"
             THEN [acc EXCEPT !.fatal = TRUE]
             ELSE Acc(Fields(IF loc.k = "GPR" THEN acc.m.used_gprs \cup {loc.r}
                                              ELSE acc.m.used_gprs,
                             IF loc.k = "XMM" THEN acc.m.used_xmms \cup {loc.r}
                                              ELSE acc.m.used_xmms,
                             so),
                      IF spill THEN acc.delta + 8 ELSE acc.delta,
                      Append(acc.ret, loc),
                      FALSE)

\* One iteration of `for ty in tys`.
acquire_step(acc, ty) ==
    IF acc.fatal THEN acc
    ELSE LET picked == acquire_match(acc.m, ty)
             spill == picked.k = "None"
             so == IF spill THEN acc.m.stack_offset + 8 ELSE acc.m.stack_offset
             loc == IF spill THEN Memory("RBP", -so) ELSE picked
         IN  IF picked.k = "unreachable"
             THEN [acc EXCEPT !.fatal = TRUE]
             ELSE Acc(Fields(IF loc.k = "GPR" THEN acc.m.used_gprs \cup {loc.r}
                                              ELSE acc.m.used_gprs,
                             IF loc.k = "XMM" THEN acc.m.used_xmms \cup {loc.r}
                                              ELSE acc.m.used_xmms,
                             so),
                      IF spill THEN acc.delta + 8 ELSE acc.delta,
                      Append(acc.ret, loc),
                      FALSE)

\* The iterations i..n of the loop, from the accumulator acc.
RECURSIVE acquire_loop(_, _, _, _)
acquire_loop(acc, tys, i, n) ==
    IF i > n THEN acc
    ELSE acquire_loop(acquire_step(acc, tys[i]), tys, i + 1, n)

\* What a method does: the fields after it, the instructions it emitted,
\* its return value, and whether it panicked.
Outcome(m, ins, ret, panicked) ==
    [m |-> m, emitted |-> ins, ret |-> ret, fatal |-> panicked]

\* `delta_stack_offset as u32`: the low 32 bits, as two 16-bit halves.
AsU32(n) == (n % 65536) + 65536 * ((n \div 65536) % 65536)

\* Mutant of acquire_locations: one `sub` of 8 per spilled operand.
acquire_locations_sub_each(m, tys, zeroed) ==
    LET acc == acquire_loop(Acc(m, 0, <<>>, FALSE), tys, 1, Len(tys))
        sub == [j \in 1..(acc.delta \div 8) |->
                    Instr("sub", Imm32(8), GPR("RSP"))]
        zero == IF zeroed
                THEN [i \in 1..Len(tys) |-> Instr("mov", Imm32(0), acc.ret[i])]
                ELSE <<>>
    IN  IF acc.fatal
        THEN Outcome(acc.m, <<>>, <<>>, TRUE)
        ELSE Outcome(acc.m, sub \o zero, acc.ret, FALSE)

acquire_locations(m, tys, zeroed) ==
    LET acc == acquire_loop(Acc(m, 0, <<>>, FALSE), tys, 1, Len(tys))
        sub == IF acc.delta # 0
               THEN <<Instr("sub", Imm32(AsU32(acc.delta)), GPR("RSP"))>>
               ELSE <<>>
        zero == IF zeroed
                THEN [i \in 1..Len(tys) |-> Instr("mov", Imm32(0), acc.ret[i])]
                ELSE <<>>
    IN  IF acc.fatal
        THEN Outcome(acc.m, <<>>, <<>>, TRUE)
        ELSE Outcome(acc.m, sub \o zero, acc.ret, FALSE)

(***************************************************************************)
(* release_locations and its three variants                                *)
(***************************************************************************)
\* Mutant of remove_gpr: the result of `remove` is not asserted.
remove_gpr_silent(acc, x) ==
    [acc EXCEPT !.m.used_gprs = @ \ {x}]

\* `assert_eq!(self.used_gprs.remove(x), true)`
remove_gpr(acc, x) ==
    IF x \in acc.m.used_gprs
    THEN [acc EXCEPT !.m.used_gprs = @ \ {x}]
    ELSE [acc EXCEPT !.fatal = TRUE]

\* Mutant of remove_xmm: the register is checked but stays in the set.
remove_xmm_kept(acc, x) ==
    IF x \in acc.m.used_xmms THEN acc ELSE [acc EXCEPT !.fatal = TRUE]

\* `assert_eq!(self.used_xmms.remove(x), true)`
remove_xmm(acc, x) ==
    IF x \in acc.m.used_xmms
    THEN [acc EXCEPT !.m.used_xmms = @ \ {x}]
    ELSE [acc EXCEPT !.fatal = TRUE]

\* Mutant of pop_slot: the offset is not compared with the stack offset.
pop_slot_unchecked(acc, x) ==
    IF x >= 0 THEN [acc EXCEPT !.fatal = TRUE]
    ELSE [acc EXCEPT !.m.stack_offset = @ - 8, !.delta = @ + 8]

\* The arm `Location::Memory(GPR::RBP, x)` of release_locations: x >= 0 and an
\* offset that is not the current stack offset are `unreachable!`.
pop_slot(acc, x) ==
    IF x >= 0 THEN [acc EXCEPT !.fatal = TRUE]
    ELSE IF -x # acc.m.stack_offset THEN [acc EXCEPT !.fatal = TRUE]
    ELSE [acc EXCEPT !.m.stack_offset = @ - 8, !.delta = @ + 8]

\* One iteration of `for loc in locs.iter().rev()` of release_locations.
release_step(acc, loc) ==
    IF acc.fatal THEN acc
    ELSE CASE loc.k = "GPR" -> remove_gpr(acc, loc.r)
           [] loc.k = "XMM" -> remove_xmm(acc, loc.r)
           [] loc.k = "Memory" /\ loc.r = "RBP" -> pop_slot(acc, loc.off)
           [] OTHER -> acc

\* Mutant of only_regs_step: a slot is popped as release_locations pops it.
only_regs_step_pops(acc, loc) ==
    IF acc.fatal THEN acc
    ELSE CASE loc.k = "GPR" -> remove_gpr(acc, loc.r)
           [] loc.k = "XMM" -> remove_xmm(acc, loc.r)
           [] loc.k = "Memory" /\ loc.r = "RBP" /\ -loc.off = acc.m.stack_offset ->
                [acc EXCEPT !.m.stack_offset = @ - 8]
           [] OTHER -> acc

\* One iteration of release_locations_only_regs.
only_regs_step(acc, loc) ==
    IF acc.fatal THEN acc
    ELSE CASE loc.k = "GPR" ->
                IF loc.r \in acc.m.used_gprs
                THEN [acc EXCEPT !.m.used_gprs = @ \ {loc.r}]
                ELSE [acc EXCEPT !.fatal = TRUE]
           [] loc.k = "XMM" ->
                IF loc.r \in acc.m.used_xmms
                THEN [acc EXCEPT !.m.used_xmms = @ \ {loc.r}]
                ELSE [acc EXCEPT !.fatal = TRUE]
           [] OTHER -> acc

\* Mutant of only_stack_step: a register that is marked used is unmarked.
only_stack_step_unmarks(acc, loc) ==
    IF acc.fatal THEN acc
    ELSE IF loc.k = "Memory" /\ loc.r = "RBP"
    THEN IF loc.off >= 0 THEN [acc EXCEPT !.fatal = TRUE]
         ELSE IF -loc.off # acc.m.stack_offset THEN [acc EXCEPT !.fatal = TRUE]
         ELSE [acc EXCEPT !.m.stack_offset = @ - 8, !.delta = @ + 8]
    ELSE IF loc.k = "GPR" THEN [acc EXCEPT !.m.used_gprs = @ \ {loc.r}]
    ELSE acc

\* One iteration of release_locations_only_stack.
only_stack_step(acc, loc) ==
    IF acc.fatal THEN acc
    ELSE IF loc.k = "Memory" /\ loc.r = "RBP"
    THEN IF loc.off >= 0 THEN [acc EXCEPT !.fatal = TRUE]
         ELSE IF -loc.off # acc.m.stack_offset THEN [acc EXCEPT !.fatal = TRUE]
         ELSE [acc EXCEPT !.m.stack_offset = @ - 8, !.delta = @ + 8]
    ELSE acc

\* Mutant of keep_state_step: the local copy of the stack offset is not
\* decremented.
keep_state_step_nodec(acc, loc) ==
    IF acc.fatal THEN acc
    ELSE IF loc.k = "Memory" /\ loc.r = "RBP"
    THEN IF loc.off >= 0 THEN [acc EXCEPT !.fatal = TRUE]
         ELSE IF -loc.off # acc.m.stack_offset THEN [acc EXCEPT !.fatal = TRUE]
         ELSE [acc EXCEPT !.delta = @ + 8]
    ELSE acc

\* One iteration of release_locations_keep_state: the local `stack_offset`
\* is a copy of the field, and the loop works on the copy.
keep_state_step(acc, loc) ==
    IF acc.fatal THEN acc
    ELSE IF loc.k = "Memory" /\ loc.r = "RBP"
    THEN IF loc.off >= 0 THEN [acc EXCEPT !.fatal = TRUE]
         ELSE IF -loc.off # acc.m.stack_offset THEN [acc EXCEPT !.fatal = TRUE]
         ELSE [acc EXCEPT !.m.stack_offset = @ - 8, !.delta = @ + 8]
    ELSE acc

\* The iterations i, i-1, .., n of the reversed loops, from the accumulator.
RECURSIVE release_loop(_, _, _, _)
release_loop(acc, locs, i, n) ==
    IF i < n THEN acc
    ELSE release_loop(release_step(acc, locs[i]), locs, i - 1, n)

RECURSIVE only_regs_loop(_, _, _, _)
only_regs_loop(acc, locs, i, n) ==
    IF i < n THEN acc
    ELSE only_regs_loop(only_regs_step(acc, locs[i]), locs, i - 1, n)

RECURSIVE only_stack_loop(_, _, _, _)
only_stack_loop(acc, locs, i, n) ==
    IF i < n THEN acc
    ELSE only_stack_loop(only_stack_step(acc, locs[i]), locs, i - 1, n)

RECURSIVE keep_state_loop(_, _, _, _)
keep_state_loop(acc, locs, i, n) ==
    IF i < n THEN acc
    ELSE keep_state_loop(keep_state_step(acc, locs[i]), locs, i - 1, n)

\* Mutant of emit_add: the add is emitted whatever the delta.
emit_add_always(delta) ==
    <<Instr("add", Imm32(AsU32(delta)), GPR("RSP"))>>

\* `if delta_stack_offset != 0 { assembler.emit_add(..) }`
emit_add(delta) ==
    IF delta # 0 THEN <<Instr("add", Imm32(AsU32(delta)), GPR("RSP"))>> ELSE <<>>

release_locations(m, locs) ==
    LET acc == release_loop(Acc(m, 0, <<>>, FALSE), locs, Len(locs), 1)
    IN  IF acc.fatal THEN Outcome(acc.m, <<>>, <<>>, TRUE)
        ELSE Outcome(acc.m, emit_add(acc.delta), <<>>, FALSE)

release_locations_only_regs(m, locs) ==
    LET acc == only_regs_loop(Acc(m, 0, <<>>, FALSE), locs, Len(locs), 1)
    IN  Outcome(acc.m, <<>>, <<>>, acc.fatal)

release_locations_only_stack(m, locs) ==
    LET acc == only_stack_loop(Acc(m, 0, <<>>, FALSE), locs, Len(locs), 1)
    IN  IF acc.fatal THEN Outcome(acc.m, <<>>, <<>>, TRUE)
        ELSE Outcome(acc.m, emit_add(acc.delta), <<>>, FALSE)

\* Mutant of release_locations_keep_state: the loop works on the field.
release_locations_keep_state_field(m, locs) ==
    LET acc == keep_state_loop(Acc(m, 0, <<>>, FALSE), locs, Len(locs), 1)
    IN  IF acc.fatal THEN Outcome(acc.m, <<>>, <<>>, TRUE)
        ELSE Outcome(acc.m, emit_add(acc.delta), <<>>, FALSE)

\* `&self`: the fields are not written; only the local copy moves.
release_locations_keep_state(m, locs) ==
    LET acc == keep_state_loop(Acc(m, 0, <<>>, FALSE), locs, Len(locs), 1)
    IN  IF acc.fatal THEN Outcome(m, <<>>, <<>>, TRUE)
        ELSE Outcome(m, emit_add(acc.delta), <<>>, FALSE)

(***************************************************************************)
(* The temporaries                                                         *)
(***************************************************************************)
\* Mutant of acquire_temp_gpr: a general register when no temporary is left.
acquire_temp_gpr_general(m) ==
    LET t == pick_temp_gpr(m.used_gprs)
        gpr == IF t # None THEN t ELSE pick_gpr(m.used_gprs)
    IN  IF gpr # None
        THEN Outcome([m EXCEPT !.used_gprs = @ \cup {gpr}], <<>>, <<GPR(gpr)>>, FALSE)
        ELSE Outcome(m, <<>>, <<>>, FALSE)

acquire_temp_gpr(m) ==
    LET gpr == pick_temp_gpr(m.used_gprs)
    IN  IF gpr # None
        THEN Outcome([m EXCEPT !.used_gprs = @ \cup {gpr}], <<>>, <<GPR(gpr)>>, FALSE)
        ELSE Outcome(m, <<>>, <<>>, FALSE)

\* `assert!(self.used_gprs.remove(&gpr))`
release_temp_gpr(m, gpr) ==
    IF gpr \in m.used_gprs
    THEN Outcome([m EXCEPT !.used_gprs = @ \ {gpr}], <<>>, <<>>, FALSE)
    ELSE Outcome(m, <<>>, <<>>, TRUE)

reserve_unused_temp_gpr(m, gpr) ==
    IF gpr \in m.used_gprs
    THEN Outcome(m, <<>>, <<>>, TRUE)
    ELSE Outcome([m EXCEPT !.used_gprs = @ \cup {gpr}], <<>>, <<GPR(gpr)>>, FALSE)

acquire_temp_xmm(m) ==
    LET xmm == pick_temp_xmm(m.used_xmms)
    IN  IF xmm # None
        THEN Outcome([m EXCEPT !.used_xmms = @ \cup {xmm}], <<>>, <<XMM(xmm)>>, FALSE)
        ELSE Outcome(m, <<>>, <<>>, FALSE)

release_temp_xmm(m, xmm) ==
    IF xmm \in m.used_xmms
    THEN Outcome([m EXCEPT !.used_xmms = @ \ {xmm}], <<>>, <<>>, FALSE)
    ELSE Outcome(m, <<>>, <<>>, TRUE)

(***************************************************************************)
(* Parameters, locals, prologue and epilogue                               *)
(***************************************************************************)
NATIVE_PAGE_SIZE == 4096

\* The calling conventions: WindowsFastcall, and one that takes the `_` arm.
CallingConventions == {"SystemV", "WindowsFastcall"}

\* `x as i32` of a usize x: x itself below 2^31, and no larger value is
\* represented here.
AsI32(x) == x

\* Mutant of get_param_location: the WindowsFastcall stack parameters start
\* at 16, without the 32 bytes of shadow space.
get_param_location_no_shadow(idx, calling_convention) ==
    IF calling_convention = "WindowsFastcall"
    THEN CASE idx = 0 -> GPR("RCX")
           [] idx = 1 -> GPR("RDX")
           [] idx = 2 -> GPR("R8")
           [] idx = 3 -> GPR("R9")
           [] OTHER -> Memory("RBP", AsI32(16 + (idx - 4) * 8))
    ELSE CASE idx = 0 -> GPR("RDI")
           [] idx = 1 -> GPR("RSI")
           [] idx = 2 -> GPR("RDX")
           [] idx = 3 -> GPR("RCX")
           [] idx = 4 -> GPR("R8")
           [] idx = 5 -> GPR("R9")
           [] OTHER -> Memory("RBP", AsI32(16 + (idx - 6) * 8))

get_param_location(idx, calling_convention) ==
    IF calling_convention = "WindowsFastcall"
    THEN CASE idx = 0 -> GPR("RCX")
           [] idx = 1 -> GPR("RDX")
           [] idx = 2 -> GPR("R8")
           [] idx = 3 -> GPR("R9")
           [] OTHER -> Memory("RBP", AsI32(16 + 32 + (idx - 4) * 8))
    ELSE CASE idx = 0 -> GPR("RDI")
           [] idx = 1 -> GPR("RSI")
           [] idx = 2 -> GPR("RDX")
           [] idx = 3 -> GPR("RCX")
           [] idx = 4 -> GPR("R8")
           [] idx = 5 -> GPR("R9")
           [] OTHER -> Memory("RBP", AsI32(16 + (idx - 6) * 8))

\* Mutant of get_local_location: without the `+ 1`.
get_local_location_no_plus1(locals, idx) ==
    Memory("RBP", -AsI32(idx * 8 + locals))

\* `locals` is the field locals_offset.
get_local_location(locals, idx) ==
    Memory("RBP", -AsI32((idx + 1) * 8 + locals))

\* The fields and the emitter after init_locals or finalize_locals.
FrameOutcome(m, save_area, locals, ins, panicked) ==
    [m |-> m, save_area_offset |-> save_area, locals_offset |-> locals,
     emitted |-> ins, fatal |-> panicked]

\* Mutant of param_moves: one move, whatever the parameter's location.
param_moves_direct(locals, i, calling_convention) ==
    <<Instr("mov", get_param_location(i + 1, calling_convention),
            get_local_location(locals, i))>>

\* The moves of parameter i + 1 into local i (the body of
\* `for i in 0..n_params`); a local is always in memory.
param_moves(locals, i, calling_convention) ==
    LET loc == get_param_location(i + 1, calling_convention)
        local_loc == get_local_location(locals, i)
    IN  IF loc.k = "GPR"
        THEN <<Instr("mov", loc, local_loc)>>
        ELSE <<Instr("mov", loc, GPR("RAX")),
               Instr("mov", GPR("RAX"), local_loc)>>

RECURSIVE params_loop(_, _, _, _)
params_loop(locals, i, n_params, calling_convention) ==
    IF i >= n_params THEN <<>>
    ELSE param_moves(locals, i, calling_convention)
            \o params_loop(locals, i + 1, n_params, calling_convention)

\* `for i in (n_params..n).step_by(NATIVE_PAGE_SIZE / 8).skip(1)`
RECURSIVE probe_loop(_, _, _)
probe_loop(locals, i, n) ==
    IF i >= n THEN <<>>
    ELSE <<Instr("mov", Imm32(0), get_local_location(locals, i))>>
            \o probe_loop(locals, i + NATIVE_PAGE_SIZE \div 8, n)

\* Mutant of zero_locals: the parameters' locals are zeroed as well.
zero_locals_all(locals, n_params, n) ==
    LET init_stack_loc_cnt == IF n > 0 THEN n ELSE 0
        last_stack_loc ==
            Memory("RBP",
                   Min({get_local_location(locals, i).off : i \in 0..(n - 1)}))
    IN  IF init_stack_loc_cnt > 0
        THEN <<Instr("mov", Imm64(init_stack_loc_cnt), GPR("RCX")),
               Instr("xor", GPR("RAX"), GPR("RAX")),
               Instr("lea", last_stack_loc, GPR("RDI")),
               Instr("rep_stosq", NoLoc, NoLoc)>>
        ELSE <<>>

\* The loop that counts the locals to zero and takes the least of their
\* locations (the derived order of Memory(RBP, _) is that of the offsets),
\* and the repeated store that follows it.
zero_locals(locals, n_params, n) ==
    LET init_stack_loc_cnt == IF n > n_params THEN n - n_params ELSE 0
        last_stack_loc ==
            Memory("RBP",
                   Min({get_local_location(locals, i).off : i \in n_params..(n - 1)}))
    IN  IF init_stack_loc_cnt > 0
        THEN <<Instr("mov", Imm64(init_stack_loc_cnt), GPR("RCX")),
               Instr("xor", GPR("RAX"), GPR("RAX")),
               Instr("lea", last_stack_loc, GPR("RDI")),
               Instr("rep_stosq", NoLoc, NoLoc)>>
        ELSE <<>>

\* The saves of the prologue, from the stack offset s.
save_moves(s, calling_convention) ==
    <<Instr("mov", GPR("R15"), Memory("RBP", -AsI32(s + 8)))>>
        \o (IF calling_convention = "WindowsFastcall"
            THEN <<Instr("mov", GPR("RDI"), Memory("RBP", -AsI32(s + 16))),
                   Instr("mov", GPR("RSI"), Memory("RBP", -AsI32(s + 24)))>>
            ELSE <<>>)

\* Mutant of init_locals: the sub reserves the locals only.
init_locals_sub_locals(m, n, n_params, calling_convention) ==
    LET locals == 8 + (IF calling_convention = "WindowsFastcall" THEN 8 * 2 ELSE 0)
        static_area_size == locals + n * 8
        saved == m.stack_offset + locals
    IN  FrameOutcome(
            [m EXCEPT !.stack_offset = saved + (static_area_size - locals)],
            Some(saved), locals,
            <<Instr("sub", Imm32(AsU32(n * 8)), GPR("RSP"))>>
                \o save_moves(m.stack_offset, calling_convention)
                \o params_loop(locals, 0, n_params, calling_convention)
                \o <<Instr("mov", get_param_location(0, calling_convention),
                           GPR("R15"))>>
                \o probe_loop(locals, n_params + NATIVE_PAGE_SIZE \div 8, n)
                \o zero_locals(locals, n_params, n),
            FALSE)

\* Mutant of init_locals: R15 is loaded before the registers are saved.
init_locals_ctx_first(m, n, n_params, calling_convention) ==
    LET locals == 8 + (IF calling_convention = "WindowsFastcall" THEN 8 * 2 ELSE 0)
        static_area_size == locals + n * 8
        saved == m.stack_offset + locals
    IN  FrameOutcome(
            [m EXCEPT !.stack_offset = saved + (static_area_size - locals)],
            Some(saved), locals,
            <<Instr("sub", Imm32(AsU32(static_area_size)), GPR("RSP"))>>
                \o <<Instr("mov", get_param_location(0, calling_convention),
                           GPR("R15"))>>
                \o save_moves(m.stack_offset, calling_convention)
                \o params_loop(locals, 0, n_params, calling_convention)
                \o probe_loop(locals, n_params + NATIVE_PAGE_SIZE \div 8, n)
                \o zero_locals(locals, n_params, n),
            FALSE)

\* Mutant of init_locals: the locals are not added to the stack offset.
init_locals_no_commit(m, n, n_params, calling_convention) ==
    LET locals == 8 + (IF calling_convention = "WindowsFastcall" THEN 8 * 2 ELSE 0)
        static_area_size == locals + n * 8
        saved == m.stack_offset + locals
    IN  FrameOutcome(
            [m EXCEPT !.stack_offset = saved],
            Some(saved), locals,
            <<Instr("sub", Imm32(AsU32(static_area_size)), GPR("RSP"))>>
                \o save_moves(m.stack_offset, calling_convention)
                \o params_loop(locals, 0, n_params, calling_convention)
                \o <<Instr("mov", get_param_location(0, calling_convention),
                           GPR("R15"))>>
                \o probe_loop(locals, n_params + NATIVE_PAGE_SIZE \div 8, n)
                \o zero_locals(locals, n_params, n),
            FALSE)

init_locals(m, n, n_params, calling_convention) ==
    LET locals == 8 + (IF calling_convention = "WindowsFastcall" THEN 8 * 2 ELSE 0)
        static_area_size == locals + n * 8
        saved == m.stack_offset + locals
    IN  FrameOutcome(
            [m EXCEPT !.stack_offset = saved + (static_area_size - locals)],
            Some(saved), locals,
            <<Instr("sub", Imm32(AsU32(static_area_size)), GPR("RSP"))>>
                \o save_moves(m.stack_offset, calling_convention)
                \o params_loop(locals, 0, n_params, calling_convention)
                \o <<Instr("mov", get_param_location(0, calling_convention),
                           GPR("R15"))>>
                \o probe_loop(locals, n_params + NATIVE_PAGE_SIZE \div 8, n)
                \o zero_locals(locals, n_params, n),
            FALSE)

\* Mutant of finalize_locals: the stack offset is rewound to the save area.
finalize_locals_rewind(m, save_area, locals, calling_convention) ==
    IF save_area = NoOffset
    THEN FrameOutcome(m, save_area, locals, <<>>, TRUE)
    ELSE FrameOutcome([m EXCEPT !.stack_offset = save_area[1]], save_area, locals,
            <<Instr("lea", Memory("RBP", -AsI32(save_area[1])), GPR("RSP"))>>
                \o (IF calling_convention = "WindowsFastcall"
                    THEN <<Instr("pop", NoLoc, GPR("RSI")),
                           Instr("pop", NoLoc, GPR("RDI"))>>
                    ELSE <<>>)
                \o <<Instr("pop", NoLoc, GPR("R15"))>>,
            FALSE)

\* Mutant of finalize_locals: RDI is popped before RSI.
finalize_locals_swapped(m, save_area, locals, calling_convention) ==
    IF save_area = NoOffset
    THEN FrameOutcome(m, save_area, locals, <<>>, TRUE)
    ELSE FrameOutcome(m, save_area, locals,
            <<Instr("lea", Memory("RBP", -AsI32(save_area[1])), GPR("RSP"))>>
                \o (IF calling_convention = "WindowsFastcall"
                    THEN <<Instr("pop", NoLoc, GPR("RDI")),
                           Instr("pop", NoLoc, GPR("RSI"))>>
                    ELSE <<>>)
                \o <<Instr("pop", NoLoc, GPR("R15"))>>,
            FALSE)

\* `self.save_area_offset.as_ref().unwrap()` panics before init_locals.
finalize_locals(m, save_area, locals, calling_convention) ==
    IF save_area = NoOffset
    THEN FrameOutcome(m, save_area, locals, <<>>, TRUE)
    ELSE FrameOutcome(m, save_area, locals,
            <<Instr("lea", Memory("RBP", -AsI32(save_area[1])), GPR("RSP"))>>
                \o (IF calling_convention = "WindowsFastcall"
                    THEN <<Instr("pop", NoLoc, GPR("RSI")),
                           Instr("pop", NoLoc, GPR("RDI"))>>
                    ELSE <<>>)
                \o <<Instr("pop", NoLoc, GPR("R15"))>>,
            FALSE)


(***************************************************************************)
(* The code generator's side: what it holds and what it passes.            *)
(***************************************************************************)
Repeat(x, n) == [i \in 1..n |-> x]

Range(s) == {s[i] : i \in DOMAIN s}

\* The bag of the elements of a sequence.
BagOfSeq(s) == [l \in Range(s) |-> Cardinality({i \in DOMAIN s : s[i] = l})]

IsReg(loc) == loc.k \in {"GPR", "XMM"}

IsSlot(loc) == loc.k = "Memory" /\ loc.r = "RBP"

\* A request of n kinds that runs through the kinds acquire_locations names.
Mixed(n) ==
    [i \in 1..n |->
        <<"I32", "F32", "I64", "F64", "FuncRef", "ExternRef">>[((i - 1) % 6) + 1]]

\* The requests passed to acquire_locations: the empty one, one of each
\* kind, the request of the test, and a mixed one of the same length.
TysInputs ==
    {<<>>} \cup {<<ty>> : ty \in WpTypes}
        \cup {Repeat("I32", TestRequest), Mixed(TestRequest)}

\* Lists passed to the release methods that are not the list acquired last:
\* nothing, a register twice, a register behind an immediate, and slots by
\* offset (the first slot of the frame, and an offset above the frame base).
\* Their registers and slots may be held further down, or not at all.
RogueLists ==
    { <<>>, <<GPR("RSI"), GPR("RSI")>>, <<Imm32(0), XMM("XMM3")>>,
      <<Memory("RBP", -8)>>, <<Memory("RBP", 16)>> }

\* The lists passed to the release methods: the list acquired last, or a
\* rogue one.
LocsInputs ==
    (IF frames = <<>> THEN {} ELSE {frames[Len(frames)]}) \cup RogueLists

\* The registers passed to release_temp_gpr and reserve_unused_temp_gpr.
GprInputs == {"RAX", "RSI"}

\* The registers passed to release_temp_xmm.
XmmInputs == {"XMM0", "XMM3"}

NumTemps == BagCardinality(temps)

\* Every handle not yet released.
Live == held (+) temps

\* The handles after a call with outcome o that released the bag B of handles
\* and returned the handles gotHeld (locations) and gotTemps (temporaries).
\* A released location is one of `held` if there is one, and a temporary
\* otherwise.
Handles(o, B, gotHeld, gotTemps) ==
    /\ held' = IF o.fatal THEN held ELSE (held (-) B) (+) BagOfSeq(gotHeld)
    /\ temps' = IF o.fatal THEN temps
                ELSE (temps (-) (B (-) held)) (+) BagOfSeq(gotTemps)

RemoveAt(s, i) == SubSeq(s, 1, i - 1) \o SubSeq(s, i + 1, Len(s))

Front(s) == SubSeq(s, 1, Len(s) - 1)

\* The last call.  snap holds the fields as they were before the matching
\* acquire_locations when the call is the release that closes a nested
\* sequence; fresh says that the list passed is the one the call before
\* returned.
Call(op, arg, zeroed, ret, snap, fresh) ==
    [op |-> op, arg |-> arg, zeroed |-> zeroed, ret |-> ret, snap |-> snap,
     fresh |-> fresh]

\* The fields and the emitter after a call with outcome o.
Apply(o) ==
    /\ used_gprs' = o.m.used_gprs
    /\ used_xmms' = o.m.used_xmms
    /\ stack_offset' = o.m.stack_offset
    /\ emitted' = o.emitted
    /\ fatal' = o.fatal

Init ==
    /\ used_gprs = {}
    /\ used_xmms = {}
    /\ stack_offset = 0
    /\ save_area_offset = NoOffset
    /\ locals_offset = 0
    /\ emitted = <<>>
    /\ fatal = FALSE
    /\ frames = <<>>
    /\ snaps = <<>>
    /\ held = EmptyBag
    /\ temps = EmptyBag
    /\ last = Call("new", <<>>, FALSE, <<>>, <<>>, FALSE)

AcquireLocations ==
    \E tys \in TysInputs, zeroed \in BOOLEAN :
        LET o == acquire_locations(Self, tys, zeroed)
        IN  /\ ~fatal
            /\ Len(frames) < MaxFrames
            /\ Apply(o)
            /\ frames' = IF o.fatal THEN frames ELSE Append(frames, o.ret)
            /\ snaps' = IF o.fatal THEN snaps ELSE Append(snaps, Self)
            /\ Handles(o, EmptyBag, o.ret, <<>>)
            /\ last' = Call("acquire_locations", tys, zeroed, o.ret, <<>>, FALSE)
            /\ UNCHANGED <<save_area_offset, locals_offset>>

\* The release of the list acquired last closes a nested sequence when the
\* fields before its acquisition are on record.  Any other release, like
\* every call below, ends the nested sequences under way.
ReleaseLocationsOf(locs) ==
        LET o == release_locations(Self, locs)
            mine == {i \in DOMAIN frames : frames[i] = locs}
            top == Len(frames) \in mine
            closes == top /\ snaps # <<>>
        IN  /\ ~fatal
            /\ Apply(o)
            /\ frames' = IF o.fatal THEN frames
                         ELSE IF top THEN Front(frames)
                         ELSE IF mine # {} THEN RemoveAt(frames, Min(mine))
                         ELSE frames
            /\ snaps' = IF o.fatal THEN snaps
                        ELSE IF closes THEN Front(snaps) ELSE <<>>
            /\ Handles(o, BagOfSeq(locs), <<>>, <<>>)
            /\ last' = Call("release_locations", locs, FALSE, <<>>,
                            IF closes THEN <<snaps[Len(snaps)]>> ELSE <<>>, FALSE)
            /\ UNCHANGED <<save_area_offset, locals_offset>>

ReleaseLocations == \E locs \in LocsInputs : ReleaseLocationsOf(locs)

ReleaseLocationsOnlyRegs ==
    \E locs \in LocsInputs :
        LET o == release_locations_only_regs(Self, locs)
        IN  /\ ~fatal
            /\ Apply(o)
            /\ snaps' = <<>>
            /\ Handles(o, BagOfSeq(SelectSeq(locs, IsReg)), <<>>, <<>>)
            /\ last' = Call("release_locations_only_regs", locs, FALSE, <<>>,
                            <<>>, FALSE)
            /\ UNCHANGED <<save_area_offset, locals_offset, frames>>

ReleaseLocationsOnlyStack ==
    \E locs \in LocsInputs :
        LET o == release_locations_only_stack(Self, locs)
        IN  /\ ~fatal
            /\ Apply(o)
            /\ snaps' = <<>>
            /\ Handles(o, BagOfSeq(SelectSeq(locs, IsSlot)), <<>>, <<>>)
            /\ last' = Call("release_locations_only_stack", locs, FALSE, <<>>,
                            <<>>, FALSE)
            /\ UNCHANGED <<save_area_offset, locals_offset, frames>>

ReleaseLocationsKeepState ==
    \E locs \in LocsInputs :
        LET o == release_locations_keep_state(Self, locs)
        IN  /\ ~fatal
            /\ Apply(o)
            /\ last' = Call("release_locations_keep_state", locs, FALSE, <<>>,
                            <<>>,
                            last.op = "acquire_locations" /\ last.ret = locs)
            /\ UNCHANGED <<save_area_offset, locals_offset, frames, snaps,
                           held, temps>>

AcquireTempGprCall ==
    LET o == acquire_temp_gpr(Self)
    IN  /\ ~fatal
        /\ Apply(o)
        /\ snaps' = <<>>
        /\ Handles(o, EmptyBag, <<>>, o.ret)
        /\ last' = Call("acquire_temp_gpr", <<>>, FALSE, o.ret, <<>>, FALSE)
        /\ UNCHANGED <<save_area_offset, locals_offset, frames>>

\* In a function body the code generator holds at most MaxTemps temporaries.
AcquireTempGpr == NumTemps < MaxTemps /\ AcquireTempGprCall

ReleaseTempGpr ==
    \E gpr \in GprInputs :
        LET o == release_temp_gpr(Self, gpr)
        IN  /\ ~fatal
            /\ Apply(o)
            /\ snaps' = <<>>
            /\ Handles(o, SetToBag({GPR(gpr)}), <<>>, <<>>)
            /\ last' = Call("release_temp_gpr", <<GPR(gpr)>>, FALSE, <<>>,
                            <<>>, FALSE)
            /\ UNCHANGED <<save_area_offset, locals_offset, frames>>

ReserveUnusedTempGpr ==
    \E gpr \in GprInputs :
        LET o == reserve_unused_temp_gpr(Self, gpr)
        IN  /\ ~fatal
            /\ NumTemps < MaxTemps
            /\ Apply(o)
            /\ snaps' = <<>>
            /\ Handles(o, EmptyBag, <<>>, o.ret)
            /\ last' = Call("reserve_unused_temp_gpr", <<GPR(gpr)>>, FALSE,
                            o.ret, <<>>, FALSE)
            /\ UNCHANGED <<save_area_offset, locals_offset, frames>>

AcquireTempXmmCall ==
    LET o == acquire_temp_xmm(Self)
    IN  /\ ~fatal
        /\ Apply(o)
        /\ snaps' = <<>>
        /\ Handles(o, EmptyBag, <<>>, o.ret)
        /\ last' = Call("acquire_temp_xmm", <<>>, FALSE, o.ret, <<>>, FALSE)
        /\ UNCHANGED <<save_area_offset, locals_offset, frames>>

AcquireTempXmm == NumTemps < MaxTemps /\ AcquireTempXmmCall

ReleaseTempXmm ==
    \E xmm \in XmmInputs :
        LET o == release_temp_xmm(Self, xmm)
        IN  /\ ~fatal
            /\ Apply(o)
            /\ snaps' = <<>>
            /\ Handles(o, SetToBag({XMM(xmm)}), <<>>, <<>>)
            /\ last' = Call("release_temp_xmm", <<XMM(xmm)>>, FALSE, <<>>,
                            <<>>, FALSE)
            /\ UNCHANGED <<save_area_offset, locals_offset, frames>>

\* An index, or a count, passed under a calling convention.
Index(idx, calling_convention) ==
    [k |-> "Index", r |-> calling_convention, off |-> idx]

\* The (n, n_params) passed to init_locals: no local; the three locals and
\* one parameter of the scenario; four parameters, the third in RCX under
\* the default convention and the fourth on the stack under WindowsFastcall,
\* and a local to zero; parameters only, the last ones passed on the stack;
\* and locals over more than one page.
LocalsInputs == {<<0, 0>>, <<3, 1>>, <<5, 4>>, <<8, 8>>, <<600, 1>>}

\* The prologue: the first call on a new Machine.  The fields it leaves are
\* the base of the nested sequences that follow.
InitLocals ==
    \E np \in LocalsInputs, cc \in CallingConventions :
        LET o == init_locals(Self, np[1], np[2], cc)
        IN  /\ ~fatal
            /\ last.op = "new"
            /\ Apply(o)
            /\ save_area_offset' = o.save_area_offset
            /\ locals_offset' = o.locals_offset
            /\ snaps' = <<o.m>>
            /\ last' = Call("init_locals", <<Index(np[1], cc), Index(np[2], cc)>>,
                            FALSE, <<>>, <<>>, FALSE)
            /\ UNCHANGED <<frames, held, temps>>

\* The epilogue, at a return point.  snap holds the fields as init_locals
\* left them when every call since was an acquire_locations or the
\* release_locations that closes it, and every list is released; fresh says
\* that the call before was such a release.
FinalizeLocals ==
    \E cc \in CallingConventions :
        LET o == finalize_locals(Self, save_area_offset, locals_offset, cc)
        IN  /\ ~fatal
            /\ Apply(o)
            /\ save_area_offset' = o.save_area_offset
            /\ locals_offset' = o.locals_offset
            /\ last' = Call("finalize_locals", <<Index(0, cc)>>, FALSE, <<>>,
                            IF frames = <<>> /\ Len(snaps) = 1 THEN snaps
                            ELSE <<>>,
                            last.op = "release_locations" /\ last.snap # <<>>)
            /\ UNCHANGED <<frames, snaps, held, temps>>

\* A query: no field is written and nothing is emitted.
Query(op, arg, ret) ==
    /\ ~fatal
    /\ emitted' = <<>>
    /\ last' = Call(op, arg, FALSE, <<ret>>, <<>>, FALSE)
    /\ UNCHANGED <<used_gprs, used_xmms, stack_offset, save_area_offset,
                   locals_offset, fatal, frames, snaps, held, temps>>

GetLocalLocation ==
    \E idx \in 0..MaxLocalIdx :
        Query("get_local_location", <<Index(idx, None)>>,
              get_local_location(locals_offset, idx))

PickGpr == Query("pick_gpr", <<>>, MapLoc(pick_gpr(used_gprs), "GPR"))

PickTempGpr == Query("pick_temp_gpr", <<>>, MapLoc(pick_temp_gpr(used_gprs), "GPR"))

PickXmm == Query("pick_xmm", <<>>, MapLoc(pick_xmm(used_xmms), "XMM"))

PickTempXmm == Query("pick_temp_xmm", <<>>, MapLoc(pick_temp_xmm(used_xmms), "XMM"))

GetParamLocation ==
    \E idx \in 0..MaxParamIdx, cc \in CallingConventions :
        Query("get_param_location", <<Index(idx, cc)>>,
              get_param_location(idx, cc))

\* The allocator as the code generator drives it: locations and temporaries.
Next ==
    \/ AcquireLocations
    \/ ReleaseLocations
    \/ AcquireTempGpr
    \/ ReleaseTempGpr
    \/ ReserveUnusedTempGpr
    \/ AcquireTempXmm
    \/ ReleaseTempXmm

Spec == Init /\ [][Next]_vars

\* The four release methods on the lists of acquire_locations.
NextRelease ==
    \/ AcquireLocations
    \/ ReleaseLocations
    \/ ReleaseLocationsOnlyRegs
    \/ ReleaseLocationsOnlyStack
    \/ ReleaseLocationsKeepState

SpecRelease == Init /\ [][NextRelease]_vars

\* The methods that free registers, on locations and temporaries.
NextRegisters ==
    \/ AcquireLocations
    \/ ReleaseLocations
    \/ ReleaseLocationsOnlyRegs
    \/ AcquireTempGpr
    \/ ReleaseTempGpr
    \/ AcquireTempXmm
    \/ ReleaseTempXmm

SpecRegisters == Init /\ [][NextRegisters]_vars

\* One function body: prologue, locations, the locals, epilogue.
NextLocals ==
    \/ InitLocals
    \/ AcquireLocations
    \/ ReleaseLocations
    \/ GetLocalLocation
    \/ FinalizeLocals

SpecLocals == Init /\ [][NextLocals]_vars

\* What the allocator hands out in a function body: locations and GPR
\* temporaries, after the prologue or without it.
NextHandout ==
    \/ InitLocals
    \/ AcquireLocations
    \/ AcquireTempGpr
    \/ ReleaseTempGpr

SpecHandout == Init /\ [][NextHandout]_vars

\* The calls that move RSP or the stack offset, after the prologue or
\* without it.
NextBalance ==
    \/ InitLocals
    \/ AcquireLocations
    \/ ReleaseLocations
    \/ ReleaseLocationsOnlyStack
    \/ ReleaseLocationsKeepState

SpecBalance == Init /\ [][NextBalance]_vars

\* The temporaries alone, as many as the pools hold.
NextTemps ==
    \/ AcquireTempGprCall
    \/ ReleaseTempGpr
    \/ AcquireTempXmmCall
    \/ ReleaseTempXmm

SpecTemps == Init /\ [][NextTemps]_vars

\* The registers of the pools.
PoolGprs == {"RSI", "RDI", "R8", "R9", "R10", "R11", "RAX", "RCX", "RDX"}

PoolXmms == {"XMM0", "XMM1", "XMM2", "XMM3", "XMM4", "XMM5", "XMM6", "XMM7"}

\* A Machine met in the middle of a function body, with any registers of one
\* class marked used (each of them can be marked and unmarked on its own:
\* reserve_unused_temp_gpr and release_temp_gpr, acquire_locations and
\* release_locations_only_regs); they are held as temporaries.
InitPick ==
    /\ \/ used_gprs \in SUBSET PoolGprs /\ used_xmms = {}
       \/ used_gprs = {} /\ used_xmms \in SUBSET PoolXmms
    /\ stack_offset = 0
    /\ save_area_offset = NoOffset
    /\ locals_offset = 0
    /\ emitted = <<>>
    /\ fatal = FALSE
    /\ frames = <<>>
    /\ snaps = <<>>
    /\ held = EmptyBag
    /\ temps = SetToBag({GPR(r) : r \in used_gprs} \cup {XMM(r) : r \in used_xmms})
    /\ last = Call("body", <<>>, FALSE, <<>>, <<>>, FALSE)

\* The four picks.
NextPick ==
    \/ PickGpr
    \/ PickTempGpr
    \/ PickXmm
    \/ PickTempXmm

SpecPick == InitPick /\ [][NextPick]_vars

\* The parameter table.
NextParams == GetParamLocation

SpecParams == Init /\ [][NextParams]_vars


(***************************************************************************)
(* Properties                                                              *)
(***************************************************************************)
\* The slots (frame-relative memory locations) of a list, in list order.
Slots(locs) == SelectSeq(locs, IsSlot)

Reverse(s) == [i \in 1..Len(s) |-> s[Len(s) + 1 - i]]

HasSlot(locs) == \E i \in DOMAIN locs : IsSlot(locs[i])

HasKind(locs, k) == \E i \in DOMAIN locs : locs[i].k = k

\* C1: round trip.  When release_locations is passed the list of the matching
\* acquire_locations and only nested acquire/release pairs lie between the
\* two, the release completes and the used GPRs, the used XMMs and the stack
\* offset are what they were just before that acquire_locations.
C1_RoundTrip ==
    (last.op = "release_locations" /\ last.snap # <<>>)
        => (~fatal /\ Self = last.snap[1])

\* An inner pair closed inside an outer one that is still open, the inner
\* list holding registers and spilled slots, on top of slots of the outer.
C1_Witness ==
    /\ last.op = "release_locations" /\ last.snap # <<>> /\ ~fatal
    /\ snaps # <<>>
    /\ HasSlot(last.arg) /\ HasKind(last.arg, "XMM")
    /\ stack_offset > 0

\* C2: as long as no call has panicked, a register is in used_gprs (used_xmms)
\* if and only if a location or temporary that was given out and not yet
\* released names it.
C2_UsedIffLive ==
    ~fatal =>
        /\ used_gprs = {l.r : l \in {h \in BagToSet(Live) : h.k = "GPR"}}
        /\ used_xmms = {l.r : l \in {h \in BagToSet(Live) : h.k = "XMM"}}

\* After a release, with a temporary and locations of both classes live.
C2_Witness ==
    /\ ~fatal /\ last.op = "release_locations"
    /\ temps # EmptyBag
    /\ \E l \in BagToSet(held) : l.k = "GPR"
    /\ \E l \in BagToSet(held) : l.k = "XMM"

\* C3: strict LIFO release.  release_locations and
\* release_locations_only_stack complete normally only if every slot of the
\* list, taken in reverse list order, is the top of the stack at its turn
\* (its offset magnitude equals the stack offset then), and the stack offset
\* goes down by 8 for each such slot and by nothing else; a slot that is not
\* the top makes the call panic.
C3_StrictLifo ==
    [][(last'.op \in {"release_locations", "release_locations_only_stack"}
            /\ ~fatal')
        => LET s == Reverse(Slots(last'.arg))
           IN  /\ \A j \in 1..Len(s) : -s[j].off = stack_offset - 8 * (j - 1)
               /\ stack_offset' = stack_offset - 8 * Len(s)]_vars

\* A list the caller holds, with slots, released out of order: the panic is
\* raised at a slot that is not the top of the stack.
C3_Witness ==
    /\ fatal /\ last.op = "release_locations"
    /\ Len(frames) > 1 /\ HasSlot(frames[1]) /\ HasSlot(frames[2])
    /\ \E i \in DOMAIN last.arg :
          /\ IsSlot(last.arg[i]) /\ last.arg[i].off < 0
          /\ -last.arg[i].off # stack_offset
          /\ \A j \in (i + 1)..Len(last.arg) : IsReg(last.arg[j])

\* C4: a call of release_locations_keep_state that returns leaves the used
\* GPRs, the used XMMs, the stack offset, the save-area offset and the locals
\* offset as they were.
C4_KeepStateFrame ==
    [][(last'.op = "release_locations_keep_state" /\ ~fatal')
        => UNCHANGED <<used_gprs, used_xmms, stack_offset, save_area_offset,
                       locals_offset>>]_vars

\* keep_state has emitted the restore of slots that stay committed.
C4_Witness ==
    /\ last.op = "release_locations_keep_state" /\ ~fatal
    /\ emitted # <<>>
    /\ HasSlot(last.arg) /\ HasKind(last.arg, "GPR")
    /\ stack_offset >= 8 * Len(Slots(last.arg))
    /\ used_gprs # {}

\* C5: where release_locations would complete on a list,
\* release_locations_keep_state on the same fields and list completes and
\* emits the same instructions (one add to RSP with the same immediate, or
\* none).
C5_KeepStateEmitsAsRelease ==
    [][last'.op = "release_locations_keep_state"
        => LET r == release_locations(Self, last'.arg)
           IN  ~r.fatal => (~fatal' /\ emitted' = r.emitted)]_vars

\* keep_state after which release_locations would complete and free two
\* slots or more.
C5_Witness ==
    /\ last.op = "release_locations_keep_state" /\ ~fatal
    /\ ~release_locations(Self, last.arg).fatal
    /\ Len(Slots(last.arg)) >= 2 /\ HasKind(last.arg, "GPR")
    /\ emitted = <<Instr("add", Imm32(8 * Len(Slots(last.arg))), GPR("RSP"))>>

\* C6: release_locations_keep_state on the complete list that the call just
\* before it, an acquire_locations, returned does not panic.
C6_KeepStateAfterAcquire ==
    (last.op = "release_locations_keep_state" /\ last.fresh) => ~fatal

\* The test: 10 x I32 on a new Machine, registers and spilled slots mixed.
C6_Witness ==
    /\ last.op = "release_locations_keep_state" /\ last.fresh /\ ~fatal
    /\ Len(last.arg) = TestRequest
    /\ Range(snaps) = {Fields({}, {}, 0)}
    /\ HasSlot(last.arg) /\ HasKind(last.arg, "GPR")


\* The kinds and the pools as the claims name them.
IntKinds == {"I32", "I64", "FuncRef", "ExternRef"}

FloatKinds == {"F32", "F64"}

GeneralGprs == <<"RSI", "RDI", "R8", "R9", "R10", "R11">>

GeneralXmms == <<"XMM3", "XMM4", "XMM5", "XMM6", "XMM7">>

\* The registers of a pool that are not in `used`, in pool order.
Unused(pool, used) == SelectSeq(pool, LAMBDA r : r \notin used)

\* How many of the first i requests are of a kind of K.
Rank(tys, i, K) == Cardinality({j \in 1..i : tys[j] \in K})

\* The location of request i, given the fields before the call: the k-th
\* request of a class gets the k-th register of its pool that was unused, and
\* a slot below the frame base when there is no such register.
ServedAt(m, tys, ret, i) ==
    LET int == tys[i] \in IntKinds
        free == IF int THEN Unused(GeneralGprs, m.used_gprs)
                       ELSE Unused(GeneralXmms, m.used_xmms)
        k == Rank(tys, i, IF int THEN IntKinds ELSE FloatKinds)
    IN  IF k <= Len(free)
        THEN ret[i] = (IF int THEN GPR(free[k]) ELSE XMM(free[k]))
        ELSE IsSlot(ret[i]) /\ ret[i].off < 0

Served(m, tys, ret) ==
    /\ Len(ret) = Len(tys)
    /\ \A i \in 1..Len(tys) : ServedAt(m, tys, ret, i)

\* C7: on a request of the kinds the allocator classifies (I32, I64,
\* FuncRef, ExternRef, F32, F64), acquire_locations does not fail and returns
\* one location per requested kind, in request order: the first unused
\* register of the general GPR pool for an integer or reference kind, of the
\* general XMM pool for a float kind, and a new slot below the frame base only
\* when the pool of that class is exhausted at that point, whatever the state
\* of the other class.
C7_ServedByClass ==
    [][(last'.op = "acquire_locations"
            /\ Range(last'.arg) \subseteq IntKinds \cup FloatKinds)
        => (~fatal' /\ Served(Self, last'.arg, last'.ret))]_vars

\* A mixed request with the GPR pool exhausted: the integers and references
\* are spilled, the floats that follow them in the list get XMM registers.
C7_Witness ==
    /\ last.op = "acquire_locations" /\ ~fatal
    /\ last.arg = Mixed(TestRequest)
    /\ \E i, j \in DOMAIN last.ret :
          /\ i < j /\ IsSlot(last.ret[i]) /\ last.ret[j].k = "XMM"
          /\ last.arg[i] = "FuncRef"

\* What the test's request returns on a new Machine.
TestLocations ==
    <<GPR("RSI"), GPR("RDI"), GPR("R8"), GPR("R9"), GPR("R10"), GPR("R11"),
      Memory("RBP", -8), Memory("RBP", -16), Memory("RBP", -24),
      Memory("RBP", -32)>>

\* C8: the j-th slot that a call of acquire_locations allocates lies 8 below
\* the stack offset as it was before that slot (so at the stack offset before
\* the call plus 8j), at a multiple of 8, deeper than every slot of this call
\* before it and than every slot given out earlier and not released; and 10
\* integer requests on a Machine with nothing in use return six registers
\* and the slots -8, -16, -24, -32.
C8_SlotOffsets ==
    [][(last'.op = "acquire_locations" /\ ~fatal')
        => LET s == Slots(last'.ret)
           IN  /\ \A j \in 1..Len(s) :
                    /\ -s[j].off = stack_offset + 8 * j
                    /\ (-s[j].off) % 8 = 0
                    /\ \A i \in 1..(j - 1) : -s[j].off > -s[i].off
                    /\ \A l \in BagToSet(held) : IsSlot(l) => -s[j].off > -l.off
               /\ (last'.arg = Repeat("I32", TestRequest)
                        /\ Self = Fields({}, {}, 0))
                    => last'.ret = TestLocations]_vars

\* The test's request was served on a new Machine, and a second request has
\* spilled below its slots.
C8_Witness ==
    /\ last.op = "acquire_locations" /\ ~fatal
    /\ Len(frames) = 2 /\ frames[1] = TestLocations /\ frames[2] = last.ret
    /\ Len(Slots(last.ret)) >= 2
    /\ stack_offset = 32 + 8 * Len(Slots(last.ret))

\* The instructions of a sequence that write RSP.
RspWrites(ins) == SelectSeq(ins, LAMBDA i : i.dst = GPR("RSP"))

\* C9: a call of acquire_locations that spills k >= 1 operands emits one
\* instruction on RSP, a sub of 8k, which is what the stack offset grew by;
\* a call that spills nothing emits none and leaves the stack offset.
C9_OneSub ==
    [][(last'.op = "acquire_locations" /\ ~fatal')
        => LET k == Len(Slots(last'.ret))
           IN  IF k >= 1
               THEN /\ RspWrites(emitted') =
                          <<Instr("sub", Imm32(8 * k), GPR("RSP"))>>
                    /\ stack_offset' - stack_offset = 8 * k
               ELSE /\ RspWrites(emitted') = <<>>
                    /\ stack_offset' = stack_offset]_vars

\* A zeroed request that spilled several operands: one sub, then the moves.
C9_Witness ==
    /\ last.op = "acquire_locations" /\ ~fatal /\ last.zeroed
    /\ Len(Slots(last.ret)) >= 2
    /\ Len(emitted) = 1 + Len(last.ret)
    /\ emitted[1].op = "sub"

\* C10: a call of release_locations that frees k >= 1 slots emits one
\* instruction, an add to RSP of 8k, which is what the stack offset fell by;
\* a call that frees none emits nothing; on the empty list it emits nothing
\* and changes no field.
C10_OneAdd ==
    [][(last'.op = "release_locations" /\ ~fatal')
        => LET k == Len(Slots(last'.arg))
           IN  /\ IF k >= 1
                  THEN /\ emitted' = <<Instr("add", Imm32(8 * k), GPR("RSP"))>>
                       /\ stack_offset - stack_offset' = 8 * k
                  ELSE /\ emitted' = <<>>
                       /\ stack_offset' = stack_offset
               /\ last'.arg = <<>>
                    => UNCHANGED <<used_gprs, used_xmms, stack_offset,
                                   save_area_offset, locals_offset>>]_vars

\* A list of registers and several slots released with one add.
C10_Witness ==
    /\ last.op = "release_locations" /\ ~fatal
    /\ Len(Slots(last.arg)) >= 2 /\ HasKind(last.arg, "GPR")
    /\ emitted = <<Instr("add", Imm32(8 * Len(Slots(last.arg))), GPR("RSP"))>>


\* The register of a location is marked used in the fields m.
InUse(m, loc) ==
    \/ loc.k = "GPR" /\ loc.r \in m.used_gprs
    \/ loc.k = "XMM" /\ loc.r \in m.used_xmms

\* The list names a register that is not marked used when its turn comes:
\* one that is not marked on entry, or one that the list names twice.
NamesUnused(m, locs) ==
    \E i \in DOMAIN locs :
        /\ IsReg(locs[i])
        /\ \/ ~InUse(m, locs[i])
           \/ \E j \in DOMAIN locs : j # i /\ locs[j] = locs[i]

\* C11: release_temp_gpr and release_temp_xmm on a register that is not
\* marked used, and release_locations and release_locations_only_regs on a
\* list that names such a register or names a register twice, panic: no such
\* call returns.
C11_ReleaseUnusedFatal ==
    [][/\ (last'.op \in {"release_temp_gpr", "release_temp_xmm"}
                /\ ~InUse(Self, last'.arg[1]))
            => fatal'
       /\ (last'.op \in {"release_locations", "release_locations_only_regs"}
                /\ NamesUnused(Self, last'.arg))
            => fatal']_vars

\* release_locations_only_regs on a list that names RSI twice, RSI being
\* held: the first removal is done, the second one panics.
C11_Witness ==
    /\ fatal /\ last.op = "release_locations_only_regs"
    /\ last.arg = <<GPR("RSI"), GPR("RSI")>>
    /\ "RSI" \notin used_gprs
    /\ GPR("RSI") \in BagToSet(held)


\* The registers the allocator hands out in this state: what the two GPR
\* picks return, and the GPRs the last call returned.
HandedOut ==
    ({pick_gpr(used_gprs), pick_temp_gpr(used_gprs)} \ {None})
        \cup (IF last.op \in {"acquire_locations", "acquire_temp_gpr"}
              THEN {last.ret[i].r : i \in {j \in DOMAIN last.ret :
                                                last.ret[j].k = "GPR"}}
              ELSE {})

\* init_locals was called with WindowsFastcall: the save area holds RDI and
\* RSI besides R15.
UnderWindowsFastcall ==
    save_area_offset # NoOffset /\ locals_offset = 8 + 8 * 2

\* C12 as stated: no result of pick_gpr, pick_temp_gpr, acquire_temp_gpr or
\* acquire_locations is RBP, RSP or R15, nor, under WindowsFastcall, RDI or
\* RSI.
C12_NoReservedNorSaved ==
    /\ HandedOut \cap {"RBP", "RSP", "R15"} = {}
    /\ UnderWindowsFastcall => HandedOut \cap {"RDI", "RSI"} = {}

\* C12, amended: no result of pick_gpr, pick_temp_gpr, acquire_temp_gpr or
\* acquire_locations is RBP, RSP or R15, under either convention.  (RDI and
\* RSI are general-pool registers under WindowsFastcall as well.)
C12_NoFrameRegister == HandedOut \cap {"RBP", "RSP", "R15"} = {}

\* Under WindowsFastcall, with a temporary held, a request that exhausts the
\* general GPRs: RSI and RDI are among the locations returned.
C12_Witness ==
    /\ UnderWindowsFastcall /\ ~fatal
    /\ last.op = "acquire_locations"
    /\ HasSlot(last.ret)
    /\ {"RSI", "RDI"} \subseteq HandedOut
    /\ "RAX" \in used_gprs

\* C13 as stated: after init_locals, nested acquire_locations and
\* release_locations with every list released, and finalize_locals, the
\* stack offset is the one on entry to init_locals (0, that of the new
\* Machine).
C13_BackToEntry ==
    (last.op = "finalize_locals" /\ ~fatal /\ last.snap # <<>>)
        => stack_offset = 0

\* C13, amended: after init_locals, nested acquire_locations and
\* release_locations with every list released, and finalize_locals, the
\* stack offset (and the used sets) are as they were on return from
\* init_locals: finalize_locals writes no field.
C13_BackToPrologueExit ==
    (last.op = "finalize_locals" /\ last.snap # <<>>)
        => (~fatal /\ Self = last.snap[1])

\* finalize_locals right after the release that closed the last nested
\* sequence, in a function with locals.
C13_Witness ==
    /\ last.op = "finalize_locals" /\ ~fatal
    /\ last.snap # <<>> /\ last.fresh
    /\ stack_offset > save_area_offset[1]


\* The fields of the Machine are as they were.
FieldsUnchanged ==
    UNCHANGED <<used_gprs, used_xmms, stack_offset, save_area_offset,
                locals_offset>>

\* C14: get_param_location returns, and writes nothing; under WindowsFastcall
\* the indices 0..3 are in registers and an index i >= 4 is at RBP + 16 + 32 +
\* 8(i - 4); under the other convention the indices 0..5 are in registers and
\* an index i >= 6 is at RBP + 16 + 8(i - 6); no two indices share a
\* location.
C14_ParamLocation ==
    [][last'.op = "get_param_location"
        => LET idx == last'.arg[1].off
               cc == last'.arg[1].r
               loc == last'.ret[1]
               regs == IF cc = "WindowsFastcall" THEN 4 ELSE 6
               base == IF cc = "WindowsFastcall" THEN 16 + 32 ELSE 16
           IN  /\ ~fatal' /\ FieldsUnchanged /\ emitted' = <<>>
               /\ IF idx < regs
                  THEN loc.k = "GPR"
                  ELSE loc = Memory("RBP", base + 8 * (idx - regs))
                          /\ loc.off > 0
               /\ \A j \in 0..MaxParamIdx :
                    j # idx => get_param_location(j, cc) # loc]_vars

\* The scenario: index 5 under WindowsFastcall is on the stack.
C14_Witness ==
    /\ last.op = "get_param_location"
    /\ last.arg = <<Index(5, "WindowsFastcall")>>
    /\ last.ret = <<Memory("RBP", 56)>>
    /\ get_param_location(3, "WindowsFastcall").k = "GPR"

TempGprs == <<"RAX", "RCX", "RDX">>

TempXmms == <<"XMM0", "XMM1", "XMM2">>

\* C15: acquire_temp_gpr and acquire_temp_xmm return the first unused
\* register of the temporary pool of their class and mark that register,
\* and nothing else, used; with the pool exhausted they return none and
\* write no field.  They emit nothing and do not panic.
C15_AcquireTemp ==
    [][last'.op \in {"acquire_temp_gpr", "acquire_temp_xmm"}
        => LET gpr == last'.op = "acquire_temp_gpr"
               free == IF gpr THEN Unused(TempGprs, used_gprs)
                              ELSE Unused(TempXmms, used_xmms)
           IN  /\ ~fatal' /\ emitted' = <<>>
               /\ UNCHANGED <<stack_offset, save_area_offset, locals_offset>>
               /\ IF free = <<>>
                  THEN last'.ret = <<>> /\ UNCHANGED <<used_gprs, used_xmms>>
                  ELSE IF gpr
                  THEN /\ last'.ret = <<GPR(free[1])>>
                       /\ used_gprs' = used_gprs \cup {free[1]}
                       /\ used_xmms' = used_xmms
                  ELSE /\ last'.ret = <<XMM(free[1])>>
                       /\ used_xmms' = used_xmms \cup {free[1]}
                       /\ used_gprs' = used_gprs]_vars

\* acquire_temp_gpr with RAX, RCX and RDX used: none is returned, and no
\* general register is marked.
C15_Witness ==
    /\ last.op = "acquire_temp_gpr" /\ last.ret = <<>> /\ ~fatal
    /\ used_gprs = {"RAX", "RCX", "RDX"}
    /\ stack_offset = 0

\* The first register of a pool outside `used`, or none.
FirstOf(pool, used, ctor) ==
    IF Unused(pool, used) = <<>> THEN NoLoc
    ELSE [k |-> ctor, r |-> Unused(pool, used)[1], off |-> 0]

\* C16: pick_gpr, pick_temp_gpr, pick_xmm and pick_temp_xmm write no field
\* and return the first register of their pool, in the order RSI, RDI, R8,
\* R9, R10, R11 / RAX, RCX, RDX / XMM3..XMM7 / XMM0..XMM2, that is not in the
\* used set of its class, and none exactly when the whole pool is used.
C16_Pick ==
    [][last'.op \in {"pick_gpr", "pick_temp_gpr", "pick_xmm", "pick_temp_xmm"}
        => LET pool == CASE last'.op = "pick_gpr" -> GeneralGprs
                         [] last'.op = "pick_temp_gpr" -> TempGprs
                         [] last'.op = "pick_xmm" -> GeneralXmms
                         [] last'.op = "pick_temp_xmm" -> TempXmms
               gpr == last'.op \in {"pick_gpr", "pick_temp_gpr"}
               used == IF gpr THEN used_gprs ELSE used_xmms
           IN  /\ ~fatal' /\ FieldsUnchanged /\ emitted' = <<>>
               /\ last'.ret[1] = FirstOf(pool, used, IF gpr THEN "GPR" ELSE "XMM")
               /\ last'.ret[1] = NoLoc <=> Range(pool) \subseteq used]_vars

\* pick_gpr with the first two general registers and a later one used, and
\* temporaries used: the third general register.
C16_Witness ==
    /\ last.op = "pick_gpr" /\ last.ret = <<GPR("R8")>>
    /\ used_gprs = {"RSI", "RDI", "R10", "RAX"}

\* The list without its slots, and without its registers.
NoSlots(locs) == SelectSeq(locs, LAMBDA l : ~IsSlot(l))

NoRegs(locs) == SelectSeq(locs, LAMBDA l : ~IsReg(l))

\* C17: release_locations_only_regs frees the registers of the list as
\* release_locations does (it panics where release_locations panics on the
\* registers, and where release_locations returns, so does it, with the
\* same used sets), leaves the stack offset and emits nothing, whatever the
\* slots of the list.
C17_OnlyRegs ==
    [][last'.op = "release_locations_only_regs"
        => LET regs == release_locations(Self, NoSlots(last'.arg))
               full == release_locations(Self, last'.arg)
           IN  /\ fatal' = regs.fatal
               /\ ~fatal' =>
                    /\ used_gprs' = regs.m.used_gprs
                    /\ used_xmms' = regs.m.used_xmms
                    /\ stack_offset' = stack_offset
                    /\ emitted' = <<>>
               /\ ~full.fatal =>
                    /\ ~fatal'
                    /\ used_gprs' = full.m.used_gprs
                    /\ used_xmms' = full.m.used_xmms]_vars

\* release_locations_only_regs returned on a list with registers and slots
\* whose last slot is not the top of the stack.
C17_Witness ==
    /\ last.op = "release_locations_only_regs" /\ ~fatal
    /\ HasKind(last.arg, "GPR") /\ HasSlot(last.arg)
    /\ -Slots(last.arg)[Len(Slots(last.arg))].off # stack_offset

\* C18: release_locations_only_stack pops the slots of the list and emits
\* the add to RSP as release_locations does (it panics where
\* release_locations panics on the slots, and where release_locations
\* returns, so does it, with the same stack offset and instruction), and
\* leaves the used sets, whatever the registers of the list.
C18_OnlyStack ==
    [][last'.op = "release_locations_only_stack"
        => LET slots == release_locations(Self, NoRegs(last'.arg))
               full == release_locations(Self, last'.arg)
           IN  /\ fatal' = slots.fatal
               /\ ~fatal' =>
                    /\ stack_offset' = slots.m.stack_offset
                    /\ emitted' = slots.emitted
                    /\ UNCHANGED <<used_gprs, used_xmms>>
               /\ ~full.fatal =>
                    /\ ~fatal'
                    /\ stack_offset' = full.m.stack_offset
                    /\ emitted' = full.emitted]_vars

\* release_locations_only_stack returned on a list with slots and a
\* register that is not marked used.
C18_Witness ==
    /\ last.op = "release_locations_only_stack" /\ ~fatal
    /\ Len(Slots(last.arg)) >= 2
    /\ emitted # <<>>
    /\ \E i \in DOMAIN last.arg :
            last.arg[i].k = "GPR" /\ last.arg[i].r \notin used_gprs


C20_Prologue ==
    last.op = "init_locals"
        => LET n == last.arg[1].off
               n_params == last.arg[2].off
               cc == last.arg[1].r
               S == IF cc = "WindowsFastcall" THEN 24 ELSE 8
           IN  /\ ~fatal
               /\ emitted[1] = Instr("sub", Imm32(S + 8 * n), GPR("RSP"))
               /\ RspWrites(emitted) = <<emitted[1]>>
               /\ stack_offset = S + 8 * n
               /\ save_area_offset = Some(S)
               /\ (n = 3 /\ n_params = 1 /\ cc # "WindowsFastcall")
                    => /\ emitted[1] = Instr("sub", Imm32(32), GPR("RSP"))
                       /\ SelectSeq(emitted, LAMBDA i : i.src = GPR("R15"))
                            = <<Instr("mov", GPR("R15"), Memory("RBP", -8))>>
                       /\ SelectSeq(emitted, LAMBDA i : i.dst = Memory("RBP", -16))
                            = <<Instr("mov", GPR("RSI"), Memory("RBP", -16))>>

\* The scenario: three locals, one parameter, the default convention.
C20_Witness ==
    /\ last.op = "init_locals" /\ ~fatal
    /\ last.arg = <<Index(3, "SystemV"), Index(1, "SystemV")>>
    /\ stack_offset = 32
    /\ Len(emitted) = 8


(***************************************************************************)
(* The frame the prologue lays out and what its instructions touch.        *)
(***************************************************************************)
\* The offsets from RBP of the save area of size S.
SaveSlots(S) == {-(8 * k) : k \in 1..(S \div 8)}

\* The offsets from RBP of the locals a..b above a save area of size S.
LocalSlots(S, a, b) == {-(S + 8 * (i + 1)) : i \in a..b}

\* The positions of the instructions of ins with the mnemonic op.
Positions(ins, op) == {j \in DOMAIN ins : ins[j].op = op}

\* The offsets a `rep stosq` writes: RCX quadwords upwards from RDI.
StosqRange(low, cnt) == {low + 8 * k : k \in 0..(cnt - 1)}

\* C21: init_locals(n, n_params, cc) with n_params <= n zeroes the locals
\* n_params .. n-1 and nothing else.  With n > n_params it ends with one
\* repeated store, set up by RCX = n - n_params, RAX = 0 and RDI = the
\* address of local n-1, the lowest local slot; the quadwords it writes are
\* exactly the slots of the locals n_params .. n-1, none of them a slot of
\* the save area or of a parameter's local, none below the frame the sub
\* reserved.  Every other store of zero goes to one of these slots.  With
\* n = n_params no repeated store and no store of zero is emitted.
C21_ZeroedLocals ==
    last.op = "init_locals"
        => LET n == last.arg[1].off
               n_params == last.arg[2].off
               S == save_area_offset[1]
               cnt == n - n_params
               p == Len(emitted)
               zeroes == {j \in DOMAIN emitted : emitted[j].src = Imm32(0)}
           IN  /\ ~fatal
               /\ \A j \in zeroes :
                    /\ emitted[j].op = "mov"
                    /\ emitted[j].dst.k = "Memory" /\ emitted[j].dst.r = "RBP"
                    /\ emitted[j].dst.off \in LocalSlots(S, n_params, n - 1)
               /\ cnt = 0 =>
                    /\ Positions(emitted, "rep_stosq") = {}
                    /\ Positions(emitted, "lea") = {}
                    /\ zeroes = {}
               /\ cnt > 0 =>
                    /\ Positions(emitted, "rep_stosq") = {p}
                    /\ emitted[p - 3] = Instr("mov", Imm64(cnt), GPR("RCX"))
                    /\ emitted[p - 2] = Instr("xor", GPR("RAX"), GPR("RAX"))
                    /\ emitted[p - 1].op = "lea"
                    /\ emitted[p - 1].dst = GPR("RDI")
                    /\ emitted[p - 1].src
                            = get_local_location(locals_offset, n - 1)
                    /\ LET written == StosqRange(emitted[p - 1].src.off, cnt)
                       IN  /\ written = LocalSlots(S, n_params, n - 1)
                           /\ written \cap SaveSlots(S) = {}
                           /\ written \cap LocalSlots(S, 0, n_params - 1) = {}
                           /\ \A w \in written :
                                    w < 0 /\ w >= -stack_offset
                                    /\ w >= -emitted[1].src.off

\* 599 locals are zeroed above one parameter, and one probe was stored.
C21_Witness ==
    /\ last.op = "init_locals" /\ ~fatal
    /\ last.arg[1].off = 600 /\ last.arg[2].off = 1
    /\ Instr("mov", Imm64(599), GPR("RCX")) \in Range(emitted)
    /\ \E j \in DOMAIN emitted : emitted[j].src = Imm32(0)


\* The body has, since the prologue, released only lists it acquired, each
\* one before the lists acquired earlier: snaps then holds the fields at the
\* prologue's return and at each acquisition still open.
BodyNested == save_area_offset # NoOffset /\ Len(snaps) = Len(frames) + 1

Touched(ins) ==
    LET touches(i) ==
            \/ i.op = "mov" /\ i.dst.k = "Memory" /\ i.dst.r = "RBP"
            \/ i.op = "lea" /\ i.dst = GPR("RDI")
        at(i) == IF i.op = "lea" THEN i.src.off ELSE i.dst.off
        sel == SelectSeq(ins, touches)
    IN  [j \in DOMAIN sel |-> at(sel[j])]

Distance(a, b) == IF a >= b THEN a - b ELSE b - a

\* C23: in the order the stores of init_locals(n, n_params, cc) execute,
\* up to the start of the repeated store at the lowest local slot, no two
\* frame addresses touched one after the other (slots of the save area, of
\* the parameters' locals, probed slots, the lowest local slot) are more
\* than NATIVE_PAGE_SIZE bytes apart, for every n and n_params <= n.
C23_ProbeStride ==
    last.op = "init_locals"
        => LET t == Touched(emitted)
           IN  \A j \in 1..(Len(t) - 1) :
                    Distance(t[j], t[j + 1]) <= NATIVE_PAGE_SIZE


\* The pairs <<register, offset from RBP>> of the moves of ins that store a
\* register into the save area of size S, and the registers in that order.
SavedAt(ins, S) ==
    {<<ins[j].src.r, ins[j].dst.off>> :
        j \in {i \in DOMAIN ins :
                /\ ins[i].op = "mov" /\ ins[i].src.k = "GPR"
                /\ ins[i].dst.k = "Memory" /\ ins[i].dst.r = "RBP"
                /\ ins[i].dst.off \in SaveSlots(S)}}

\* The pairs <<register, offset from RBP>> of the pops of ins, which starts
\* by loading RSP with an address off RBP: each pop reads at RSP and adds 8.
RestoredFrom(ins) ==
    {<<ins[j].dst.r, ins[1].src.off + 8 * (j - 2)>> : j \in 2..Len(ins)}

\* Where the claim has each callee-saved register.
SaveArea(calling_convention) ==
    IF calling_convention = "WindowsFastcall"
    THEN {<<"R15", -8>>, <<"RDI", -16>>, <<"RSI", -24>>}
    ELSE {<<"R15", -8>>}

\* C24: finalize_locals, passed the convention init_locals was passed, emits
\* a load of RSP with RBP - S, S being the save area offset, then one pop per
\* saved register, in the reverse of the order of the saves, so that each
\* register is popped from the slot init_locals stored it in: RSI from -24,
\* RDI from -16 and R15 from -8 under WindowsFastcall, R15 from -8
\* otherwise; this whatever was acquired and released in between.
C24_Epilogue ==
    /\ last.op = "init_locals"
        => SavedAt(emitted, save_area_offset[1]) = SaveArea(last.arg[1].r)
    /\ (/\ last.op = "finalize_locals" /\ ~fatal
        /\ last.arg[1].r = "WindowsFastcall" <=> UnderWindowsFastcall)
        => LET cc == last.arg[1].r
               S == save_area_offset[1]
               pops == SubSeq(emitted, 2, Len(emitted))
           IN  /\ emitted[1] = Instr("lea", Memory("RBP", -S), GPR("RSP"))
               /\ \A j \in DOMAIN pops :
                    pops[j].op = "pop" /\ pops[j].dst.k = "GPR"
               /\ [j \in DOMAIN pops |-> pops[j].dst.r]
                    = (IF cc = "WindowsFastcall" THEN <<"RSI", "RDI", "R15">>
                       ELSE <<"R15">>)
               /\ RestoredFrom(emitted) = SaveArea(cc)

\* The epilogue under WindowsFastcall, emitted while two lists are still
\* acquired, one with slots.
C24_Witness ==
    /\ last.op = "finalize_locals" /\ ~fatal
    /\ last.arg[1].r = "WindowsFastcall" /\ UnderWindowsFastcall
    /\ Len(frames) = 2 /\ HasSlot(frames[2])
    /\ stack_offset > snaps[1].stack_offset
    /\ Len(emitted) = 4


\* C25: init_locals(n, n_params, cc) emits no move from memory to memory.
\* For every i < n_params the slot of local i is written once: by one move
\* from the register of parameter i + 1 when that parameter is passed in a
\* register, and otherwise by a move from RAX that directly follows the
\* move of the parameter's stack location into RAX.
C25_ParamMoves ==
    last.op = "init_locals"
        => LET n_params == last.arg[2].off
               cc == last.arg[1].r
               S == save_area_offset[1]
           IN  /\ \A j \in DOMAIN emitted :
                    ~(emitted[j].src.k = "Memory" /\ emitted[j].dst.k = "Memory")
               /\ \A i \in 0..(n_params - 1) :
                    LET loc == get_param_location(i + 1, cc)
                        slot == Memory("RBP", -(S + 8 * (i + 1)))
                        w == {j \in DOMAIN emitted : emitted[j].dst = slot}
                    IN  /\ Cardinality(w) = 1
                        /\ \A j \in w :
                            IF loc.k = "GPR"
                            THEN emitted[j] = Instr("mov", loc, slot)
                            ELSE /\ loc.k = "Memory"
                                 /\ emitted[j] = Instr("mov", GPR("RAX"), slot)
                                 /\ emitted[j - 1] = Instr("mov", loc, GPR("RAX"))

\* Eight parameters under the default convention: five arrive in registers
\* (five moves) and three on the stack (six moves), after the sub and the
\* save of R15 and before the load of R15.
C25_Witness ==
    /\ last.op = "init_locals" /\ ~fatal
    /\ last.arg = <<Index(8, "SystemV"), Index(8, "SystemV")>>
    /\ Len(emitted) = 2 + 5 + 6 + 1
    /\ Instr("mov", Memory("RBP", 32), GPR("RAX")) \in Range(emitted)


\* C26: in every state reached without a fatal call by acquire_locations,
\* release_locations, acquire_temp_gpr, acquire_temp_xmm, release_temp_gpr,
\* release_temp_xmm and reserve_unused_temp_gpr, the live locations are
\* pairwise distinct: no register or slot is live twice, be it within one
\* acquired list, in two lists, or in a list and as a temporary; and what
\* acquire_locations or an acquisition of a temporary has just returned is
\* live once.
C26_NoAliasing ==
    ~fatal
        => /\ \A l \in BagToSet(Live) : CopiesIn(l, Live) = 1
           /\ last.op \in {"acquire_locations", "acquire_temp_gpr",
                           "acquire_temp_xmm"}
                => \A j \in DOMAIN last.ret :
                    last.ret[j] # NoLoc => CopiesIn(last.ret[j], Live) = 1

\* Two lists are acquired, the second returned registers and slots while
\* the first holds registers, and a temporary is outstanding.
C26_Witness ==
    /\ ~fatal /\ last.op = "acquire_locations"
    /\ Len(frames) = 2
    /\ \E i \in DOMAIN frames[1] : IsReg(frames[1][i])
    /\ \E i \in DOMAIN last.ret : IsReg(last.ret[i])
    /\ HasSlot(last.ret)
    /\ BagCardinality(temps) = 1
    /\ BagCardinality(Live) >= 8


\* The bytes the instructions ins take off RSP: the immediates of their subs
\* less those of their adds.
RECURSIVE NetSub(_)
NetSub(ins) ==
    IF ins = <<>> THEN 0
    ELSE LET i == ins[1]
             by == IF i.dst # GPR("RSP") THEN 0
                   ELSE IF i.op = "sub" THEN i.src.off
                   ELSE IF i.op = "add" THEN -i.src.off
                   ELSE 0
         IN  by + NetSub(Tail(ins))

\* C27: init_locals and every later acquire_locations, release_locations
\* and release_locations_only_stack that returns takes off RSP, by the
\* immediates of the subs and adds it emits, exactly what it adds to the
\* stack offset; both are 0 on a new Machine, so after any sequence of these
\* calls the bytes subtracted since function entry equal the stack offset.
\* release_locations_keep_state is the call after which the two differ: it
\* emits the add of the slots passed and leaves the stack offset.
\* (release_locations_only_regs emits nothing and leaves the stack offset:
\* see C17.)
C27_Balance ==
    /\ last.op = "new" /\ NetSub(emitted) = 0 /\ stack_offset = 0
    /\ [][~fatal'
            => /\ last'.op # "release_locations_keep_state"
                    => NetSub(emitted') = stack_offset' - stack_offset
               /\ last'.op = "release_locations_keep_state"
                    => /\ stack_offset' = stack_offset
                       /\ NetSub(emitted') = -8 * Len(Slots(last'.arg))]_vars

\* After the prologue of three locals (32 bytes) a list with slots was
\* acquired and released: the add gives back what the sub of the acquisition
\* took and the stack offset is that of the prologue's return.
C27_Witness ==
    /\ last.op = "release_locations" /\ ~fatal
    /\ BodyNested /\ frames = <<>>
    /\ save_area_offset = Some(8)
    /\ stack_offset = 32
    /\ NetSub(emitted) <= -16


\* The registers the instruction i writes; the repeated store advances RDI
\* and counts RCX down.
Writes(i) ==
    IF i.op = "rep_stosq" THEN {"RDI", "RCX"}
    ELSE IF i.dst.k = "GPR" THEN {i.dst.r}
    ELSE {}

\* The instruction copy is in ins and no instruction before it writes reg.
CopiedFirst(ins, reg, copy) ==
    \E c \in DOMAIN ins :
        /\ ins[c] = copy
        /\ \A j \in 1..(c - 1) : reg \notin Writes(ins[j])

\* The registers the prologue writes although they hold a value at entry.
Clobbered(ins) == UNION {Writes(ins[j]) : j \in DOMAIN ins} \ {"RSP"}

\* C28: in the instructions of init_locals(n, n_params, cc), under both
\* conventions and for every n_params <= n, R15 (and RDI and RSI under
\* WindowsFastcall) is stored to its slot of the save area before any
\* instruction writes it; every parameter 1 .. n_params passed in a register
\* is moved to its local's slot, and parameter 0 is moved to R15, before any
\* instruction writes the register it arrives in, be it a move through RAX,
\* the load of R15, or RCX, RAX and RDI of the repeated store.
C28_PrologueOrder ==
    last.op = "init_locals"
        => LET n_params == last.arg[2].off
               cc == last.arg[1].r
               S == save_area_offset[1]
               local(i) == Memory("RBP", -(S + 8 * (i + 1)))
               save(reg, off) == Instr("mov", GPR(reg), Memory("RBP", off))
               vmctx == get_param_location(0, cc)
           IN  /\ CopiedFirst(emitted, "R15", save("R15", -8))
               /\ cc = "WindowsFastcall"
                    => /\ CopiedFirst(emitted, "RDI", save("RDI", -16))
                       /\ CopiedFirst(emitted, "RSI", save("RSI", -24))
               /\ \A i \in 0..(n_params - 1) :
                    LET loc == get_param_location(i + 1, cc)
                    IN  loc.k = "GPR"
                            => CopiedFirst(emitted, loc.r,
                                           Instr("mov", loc, local(i)))
               /\ vmctx.k = "GPR"
               /\ CopiedFirst(emitted, vmctx.r,
                              Instr("mov", vmctx, GPR("R15")))

\* Five locals, four of them parameters, under the default convention: RSI,
\* RDX, RCX and R8 are moved to their slots, RDI to R15, and only then does
\* the repeated store write RCX, RAX and RDI.
C28_Witness ==
    /\ last.op = "init_locals" /\ ~fatal
    /\ last.arg = <<Index(5, "SystemV"), Index(4, "SystemV")>>
    /\ Clobbered(emitted) = {"R15", "RCX", "RAX", "RDI"}
    /\ Instr("mov", GPR("RCX"), Memory("RBP", -32)) \in Range(emitted)
    /\ Instr("mov", Imm64(1), GPR("RCX")) \in Range(emitted)

====
